---- MODULE Spec2Model ----
(***************************************************************************)
(* Book Publishing API (src/main.py): a FastAPI service over three SQLite  *)
(* tables, authors, publishers and books.  Every request gets its own      *)
(* connection from get_db and runs its handler as a sequence of SQL        *)
(* statements; handlers of different requests run in parallel (FastAPI     *)
(* runs plain `def` endpoints in a thread pool), so the statements of      *)
(* different requests interleave.  A statement, and an INSERT / UPDATE /   *)
(* DELETE together with the db.commit() that follows it, is one atomic     *)
(* step: SQLite serialises write transactions and other connections see a  *)
(* write only when it commits.                                             *)
(*                                                                         *)
(* Left out: a failing sqlite3.connect, "database is locked" time-outs of  *)
(* a writer waiting for another, and sqlite3's refusal of a connection     *)
(* used outside the thread that opened it.                                 *)
(***************************************************************************)
EXTENDS Integers, Sequences, FiniteSets, TLC

\* Number of requests a run issues (they may all be in flight together).
MaxReq == 2

Reqs == 1..MaxReq

\* Optional[T]: None, or a present value.
None == <<>>
Some(v) == <<v>>

\* DATE DEFAULT CURRENT_DATE (line 40): the day of the insert, one symbolic day.
CURRENT_DATE == "CURRENT_DATE"

VARIABLES
    authors,     \* table authors: id -> row
    publishers,  \* table publishers: id -> row
    books,       \* table books: id -> row
    seq,         \* sqlite_sequence: per table, the largest id ever assigned
    reqs         \* the requests: handler, arguments, position, connection, response

vars == <<authors, publishers, books, seq, reqs>>

-----------------------------------------------------------------------------
(* Rows.  A price (REAL) is counted in cents. *)

AuthorRow(id, a) ==
    [id |-> id, name |-> a.name, email |-> a.email, bio |-> a.bio,
     date_registered |-> Some(CURRENT_DATE)]

PublisherRow(id, p) ==
    [id |-> id, name |-> p.name, address |-> p.address, phone |-> p.phone,
     email |-> p.email]

BookRow(id, b) ==
    [id |-> id, title |-> b.title, description |-> b.description, isbn |-> b.isbn,
     publication_date |-> b.publication_date, price |-> b.price, genre |-> b.genre,
     author_id |-> b.author_id, publisher_id |-> b.publisher_id]

\* UPDATE authors SET name = ?, email = ?, bio = ? (date_registered is not set)
AuthorSet(row, a) == [row EXCEPT !.name = a.name, !.email = a.email, !.bio = a.bio]

PublisherSet(row, p) ==
    [row EXCEPT !.name = p.name, !.address = p.address, !.phone = p.phone,
                !.email = p.email]

\* Variant of BookSet: a field the body leaves null keeps its stored value.
BookSetSparse(row, b) ==
    [f \in DOMAIN row |->
        IF f = "id" THEN row.id
        ELSE IF f = "title" THEN b.title
        ELSE IF b[f] = None THEN row[f] ELSE b[f]]

\* UPDATE books SET title = ?, ..., publisher_id = ? : all eight columns
BookSet(row, b) == BookRow(row.id, b)

-----------------------------------------------------------------------------
(* The store after init_db *)

SeedAuthors ==
    (1 :> AuthorRow(1, [name |-> "Jane Austen", email |-> Some("jane@example.com"),
                        bio |-> Some("Famous English novelist known for her six major novels")]))
    @@ (2 :> AuthorRow(2, [name |-> "George Orwell", email |-> Some("george@example.com"),
                           bio |-> Some("English novelist and essayist")]))

SeedPublishers ==
    (1 :> PublisherRow(1, [name |-> "Penguin Random House",
                           address |-> Some("123 Publishing St, NY"),
                           phone |-> Some("555-1234"), email |-> Some("info@prh.com")]))
    @@ (2 :> PublisherRow(2, [name |-> "HarperCollins",
                              address |-> Some("456 Book Ave, CA"),
                              phone |-> Some("555-5678"),
                              email |-> Some("info@harpercollins.com")]))

SeedBooks ==
    (1 :> BookRow(1, [title |-> "Pride and Prejudice",
                      description |-> Some("A romantic novel of manners"),
                      isbn |-> Some("9780141439518"),
                      publication_date |-> Some("1813-01-28"), price |-> Some(1299),
                      genre |-> Some("Classic"),
                      author_id |-> Some(1), publisher_id |-> Some(1)]))
    @@ (2 :> BookRow(2, [title |-> "1984",
                         description |-> Some("A dystopian social science fiction novel"),
                         isbn |-> Some("9780451524935"),
                         publication_date |-> Some("1949-06-08"), price |-> Some(1499),
                         genre |-> Some("Dystopian"),
                         author_id |-> Some(2), publisher_id |-> Some(2)]))

-----------------------------------------------------------------------------
(* SQL *)

Min(a, b) == IF a < b THEN a ELSE b
Max(a, b) == IF a > b THEN a ELSE b

\* The rows of a table in rowid order, the order of a SELECT with no ORDER BY.
RECURSIVE RowsOf(_, _)
RowsOf(tbl, ids) ==
    IF ids = {} THEN <<>>
    ELSE LET m == CHOOSE i \in ids : \A j \in ids : i <= j
         IN <<tbl[m]>> \o RowsOf(tbl, ids \ {m})

\* LIMIT ? OFFSET ?: a negative OFFSET counts as 0, a negative LIMIT as no limit.
Page(rows, limit, skip) ==
    LET rest == SubSeq(rows, Max(skip, 0) + 1, Len(rows))
    IN IF limit < 0 THEN rest ELSE SubSeq(rest, 1, Min(limit, Len(rest)))

\* A SQLite INTEGER is a signed 64-bit integer, and sqlite3 raises OverflowError
\* ("Python int too large to convert to SQLite INTEGER") when a statement is
\* given a Python int outside it.  TLC's integers are narrower than 64 bits, so
\* the model's INTEGER is narrower too: SqliteMaxInt stands for 2^63 - 1, and only
\* whether a bound value lies within the range matters.
SqliteMaxInt == 2 ^ 20 - 1
InRange(v) == -SqliteMaxInt - 1 <= v /\ v <= SqliteMaxInt

\* SELECT ... WHERE id = ? ; fetchone(): the row, or None.
FetchOne(tbl, id) == IF id \in DOMAIN tbl THEN Some(tbl[id]) ELSE None

\* UNIQUE (email / isbn): a non-NULL value already held by a row other than `self`.
EmailTaken(tbl, email, self) ==
    email # None /\ \E i \in DOMAIN tbl : i # self /\ tbl[i].email = email

IsbnTaken(tbl, isbn, self) ==
    isbn # None /\ \E i \in DOMAIN tbl : i # self /\ tbl[i].isbn = isbn

DeleteRow(tbl, id) == [i \in DOMAIN tbl \ {id} |-> tbl[i]]

\* Variant of ForeignKeys: the connection enforces the declared foreign keys.
ForeignKeysOn == TRUE

\* FOREIGN KEY (author_id) / (publisher_id) of books are declared, but SQLite
\* enforces foreign keys only on a connection that ran PRAGMA foreign_keys = ON,
\* and get_db never runs it.
ForeignKeys == FALSE

\* A foreign-key violation of writing a book with these references.
BadReference(b) ==
    /\ ForeignKeys
    /\ \/ b.author_id # None /\ b.author_id[1] \notin DOMAIN authors
       \/ b.publisher_id # None /\ b.publisher_id[1] \notin DOMAIN publishers

\* A foreign-key violation of deleting a parent row some book refers to.
StillReferenced(column, id) ==
    /\ ForeignKeys
    /\ \E i \in DOMAIN books :
         IF column = "author_id" THEN books[i].author_id = Some(id)
         ELSE books[i].publisher_id = Some(id)

-----------------------------------------------------------------------------
(* Responses *)

Resp(status, detail, rows) == [status |-> status, detail |-> detail, rows |-> rows]
NoResp == Resp(0, "", <<>>)

\* raise HTTPException(status_code=404, detail=...)
Raise404(q, detail) == [q EXCEPT !.pc = "exit", !.res = Resp(404, detail, <<>>)]

\* An exception no handler catches: 500 Internal Server Error.
Raise500(q, exc) == [q EXCEPT !.pc = "exit", !.res = Resp(500, exc, <<>>)]

\* return dict(result): of None it raises TypeError.
ReturnDict(q, result) ==
    IF result = None THEN Raise500(q, "TypeError")
    ELSE [q EXCEPT !.pc = "exit", !.res = Resp(200, "", <<result[1]>>)]

ReturnList(q, rows) == [q EXCEPT !.pc = "exit", !.res = Resp(200, "", rows)]

ReturnMessage(q, msg) == [q EXCEPT !.pc = "exit", !.res = Resp(200, msg, <<>>)]

\* The request has executed and committed one more INSERT / UPDATE / DELETE.
Wrote(q, pc) == [q EXCEPT !.pc = pc, !.writes = @ + 1]

\* cursor.execute("SELECT * FROM <table> WHERE id = ?"); if result is None: raise 404
ExistenceCheck(q, tbl, detail, next) ==
    IF ~InRange(q.id) THEN Raise500(q, "OverflowError")
    ELSE IF FetchOne(tbl, q.id) = None THEN Raise404(q, detail)
    ELSE [q EXCEPT !.pc = next]

\* read_author / read_publisher / read_book: the same SELECT, then return dict(result)
SelectById(q, tbl, detail) ==
    IF ~InRange(q.id) THEN Raise500(q, "OverflowError")
    ELSE IF FetchOne(tbl, q.id) = None THEN Raise404(q, detail)
    ELSE ReturnDict(q, FetchOne(tbl, q.id))

\* read_authors / read_publishers: SELECT * FROM <table> LIMIT ? OFFSET ?
SelectPage(q, tbl) ==
    IF ~InRange(q.qry.limit) \/ ~InRange(q.qry.skip) THEN Raise500(q, "OverflowError")
    ELSE ReturnList(q, Page(RowsOf(tbl, DOMAIN tbl), q.qry.limit, q.qry.skip))

-----------------------------------------------------------------------------
(* Requests *)

\* Path ids a request may name: a seeded row, the first id not yet assigned, and
\* an integer beyond SQLite's.
PathIds == {1, 3, SqliteMaxInt + 1}

AuthorInputs ==
    {[name |-> "Ann", email |-> e, bio |-> b] :
        e \in {None, Some("jane@example.com")}, b \in {None, Some("A bio")}}

\* skip and limit of a listing: the defaults, one page inside the table, and a
\* limit beyond SQLite's integers.
Pages ==
    {[skip |-> 0, limit |-> 100], [skip |-> 1, limit |-> 1],
     [skip |-> 0, limit |-> SqliteMaxInt + 1]}

Call(op, id, body, qry, pc) == [op |-> op, id |-> id, body |-> body, qry |-> qry, pc |-> pc]

AuthorCalls ==
    {Call("create_author", 0, a, None, "insert") : a \in AuthorInputs}
    \cup {Call("read_authors", 0, None, pg, "select") : pg \in Pages}
    \cup {Call("read_author", i, None, None, "select") : i \in PathIds}
    \cup {Call("update_author", i, a, None, "check") : i \in PathIds, a \in AuthorInputs}
    \cup {Call("delete_author", i, None, None, "check") : i \in PathIds}

PublisherInputs ==
    {[name |-> "Pub", address |-> x, phone |-> x, email |-> e] :
        e \in {None, Some("info@prh.com")}, x \in {None, Some("contact")}}

PublisherCalls ==
    {Call("create_publisher", 0, p, None, "insert") : p \in PublisherInputs}
    \cup {Call("read_publishers", 0, None, pg, "select") : pg \in Pages}
    \cup {Call("read_publisher", i, None, None, "select") : i \in PathIds}
    \cup {Call("update_publisher", i, p, None, "check") : i \in PathIds, p \in PublisherInputs}
    \cup {Call("delete_publisher", i, None, None, "check") : i \in PathIds}

\* A reference of a book: none, a seeded row, the first id not yet assigned, or
\* an integer beyond SQLite's.
RefIds == {None, Some(1), Some(3), Some(SqliteMaxInt + 1)}

\* A book body: only the title, with every pair of references; or every optional
\* field set, with no references or with those of book 1.
BookInputs ==
    {[title |-> "Sense", description |-> None, isbn |-> None, publication_date |-> None,
      price |-> None, genre |-> None, author_id |-> a, publisher_id |-> p] :
        a \in RefIds, p \in RefIds}
    \cup
    {[title |-> "Emma", description |-> Some("A novel"), isbn |-> Some("9780141439587"),
      publication_date |-> Some("1815-12-23"), price |-> Some(0),
      genre |-> Some("Classical"), author_id |-> x, publisher_id |-> x] :
        x \in {None, Some(1)}}

\* The query of read_books: each filter omitted, zero / empty, or a stored value;
\* the default page, or the second row alone.
BookQueries ==
    {[skip |-> sl[1], limit |-> sl[2], genre |-> g, author_id |-> a, publisher_id |-> p] :
        sl \in {<<0, 100>>, <<1, 1>>}, g \in {None, Some(""), Some("Classic")},
        a \in {None, Some(0), Some(1)}, p \in {None, Some(0)}}
    \cup {[skip |-> 0, limit |-> SqliteMaxInt + 1, genre |-> None, author_id |-> None,
           publisher_id |-> None]}

\* The first statement of create_book / update_book after the existence check.
AfterAuthor(b) == IF b.publisher_id # None THEN "val_publisher" ELSE "write"
AfterCheck(b) == IF b.author_id # None THEN "val_author" ELSE AfterAuthor(b)

BookCalls ==
    {Call("create_book", 0, b, None, AfterCheck(b)) : b \in BookInputs}
    \cup {Call("read_books", 0, None, qy, "select") : qy \in BookQueries}
    \cup {Call("read_book", i, None, None, "select") : i \in PathIds}
    \cup {Call("update_book", i, b, None, "check") : i \in PathIds, b \in BookInputs}
    \cup {Call("delete_book", i, None, None, "check") : i \in PathIds}

Calls == AuthorCalls \cup PublisherCalls \cup BookCalls

Idle ==
    [op |-> "none", id |-> 0, body |-> None, qry |-> None, pc |-> "idle",
     conn |-> "none", res |-> NoResp, lastrowid |-> 0, writes |-> 0, pre |-> None]

\* A request that is over: its connection closed; only the status it ended with
\* is kept.
Done(q) == [Idle EXCEPT !.pc = "done", !.conn = "closed", !.res = Resp(q.res.status, "", <<>>)]

\* The three tables, as a request finds them when it arrives (kept in `pre`, which
\* no handler reads: it is what the request's effect is measured against).
Store == [authors |-> authors, publishers |-> publishers, books |-> books]

Init ==
    /\ authors = SeedAuthors
    /\ publishers = SeedPublishers
    /\ books = SeedBooks
    /\ seq = [authors |-> 2, publishers |-> 2, books |-> 2]
    /\ reqs = [r \in Reqs |-> Idle]

\* get_db up to its yield: the request's own connection is opened and handed to
\* the handler.  Requests are numbered in the order they arrive.
get_db_open(r) ==
    /\ reqs[r].pc = "idle"
    /\ IF r = 1 THEN TRUE ELSE reqs[r - 1].pc # "idle"
    /\ \E c \in Calls :
         reqs' = [reqs EXCEPT ![r] =
                    [Idle EXCEPT !.op = c.op, !.id = c.id, !.body = c.body,
                                 !.qry = c.qry, !.pc = c.pc, !.conn = "open",
                                 !.pre = Some(Store)]]
    /\ UNCHANGED <<authors, publishers, books, seq>>

\* Variant of get_db_close: conn.close() follows the yield with no try/finally,
\* so a handler that raised leaves its connection open.
get_db_close_no_finally(r) ==
    /\ reqs[r].pc = "exit"
    /\ reqs' = [reqs EXCEPT ![r] =
                  IF reqs[r].res.status = 200 THEN Done(reqs[r])
                  ELSE [Done(reqs[r]) EXCEPT !.conn = "open"]]
    /\ UNCHANGED <<authors, publishers, books, seq>>

\* get_db after its yield: the handler has returned or raised; finally: conn.close()
get_db_close(r) ==
    /\ reqs[r].pc = "exit"
    /\ reqs' = [reqs EXCEPT ![r] = Done(reqs[r])]
    /\ UNCHANGED <<authors, publishers, books, seq>>

-----------------------------------------------------------------------------
(* Author endpoints *)

create_author(r) ==
    LET q == reqs[r] IN
    /\ q.op = "create_author"
    /\ \/ /\ q.pc = "insert"
          /\ IF EmailTaken(authors, q.body.email, 0)
             THEN /\ reqs' = [reqs EXCEPT ![r] = Raise500(q, "IntegrityError")]
                  /\ UNCHANGED <<authors, seq>>
             ELSE LET id == seq.authors + 1 IN
                  /\ authors' = authors @@ (id :> AuthorRow(id, q.body))
                  /\ seq' = [seq EXCEPT !.authors = id]
                  /\ reqs' = [reqs EXCEPT ![r] = [Wrote(q, "reread") EXCEPT !.lastrowid = id]]
          /\ UNCHANGED <<publishers, books>>
       \/ /\ q.pc = "reread"
          /\ reqs' = [reqs EXCEPT ![r] = ReturnDict(q, FetchOne(authors, q.lastrowid))]
          /\ UNCHANGED <<authors, publishers, books, seq>>

read_authors(r) ==
    LET q == reqs[r] IN
    /\ q.op = "read_authors"
    /\ q.pc = "select"
    /\ reqs' = [reqs EXCEPT ![r] = SelectPage(q, authors)]
    /\ UNCHANGED <<authors, publishers, books, seq>>

read_author(r) ==
    LET q == reqs[r] IN
    /\ q.op = "read_author"
    /\ q.pc = "select"
    /\ reqs' = [reqs EXCEPT ![r] = SelectById(q, authors, "Author not found")]
    /\ UNCHANGED <<authors, publishers, books, seq>>

update_author(r) ==
    LET q == reqs[r] IN
    /\ q.op = "update_author"
    /\ \/ /\ q.pc = "check"
          /\ reqs' = [reqs EXCEPT ![r] =
                        ExistenceCheck(q, authors, "Author not found", "update")]
          /\ UNCHANGED <<authors, publishers, books, seq>>
       \/ /\ q.pc = "update"
          /\ IF q.id \in DOMAIN authors /\ EmailTaken(authors, q.body.email, q.id)
             THEN /\ reqs' = [reqs EXCEPT ![r] = Raise500(q, "IntegrityError")]
                  /\ UNCHANGED authors
             ELSE /\ authors' = [i \in DOMAIN authors |->
                                   IF i = q.id THEN AuthorSet(authors[i], q.body) ELSE authors[i]]
                  /\ reqs' = [reqs EXCEPT ![r] = Wrote(q, "reread")]
          /\ UNCHANGED <<publishers, books, seq>>
       \/ /\ q.pc = "reread"
          /\ reqs' = [reqs EXCEPT ![r] = ReturnDict(q, FetchOne(authors, q.id))]
          /\ UNCHANGED <<authors, publishers, books, seq>>

delete_author(r) ==
    LET q == reqs[r] IN
    /\ q.op = "delete_author"
    /\ \/ /\ q.pc = "check"
          /\ reqs' = [reqs EXCEPT ![r] =
                        ExistenceCheck(q, authors, "Author not found", "delete")]
          /\ UNCHANGED <<authors, publishers, books, seq>>
       \/ /\ q.pc = "delete"
          /\ IF StillReferenced("author_id", q.id)
             THEN /\ reqs' = [reqs EXCEPT ![r] = Raise500(q, "IntegrityError")]
                  /\ UNCHANGED authors
             ELSE /\ authors' = DeleteRow(authors, q.id)
                  /\ reqs' = [reqs EXCEPT ![r] =
                                ReturnMessage(Wrote(q, "exit"),
                                    "Author " \o ToString(q.id) \o " deleted successfully")]
          /\ UNCHANGED <<publishers, books, seq>>

-----------------------------------------------------------------------------
(* Publisher endpoints *)

create_publisher(r) ==
    LET q == reqs[r] IN
    /\ q.op = "create_publisher"
    /\ \/ /\ q.pc = "insert"
          /\ IF EmailTaken(publishers, q.body.email, 0)
             THEN /\ reqs' = [reqs EXCEPT ![r] = Raise500(q, "IntegrityError")]
                  /\ UNCHANGED <<publishers, seq>>
             ELSE LET id == seq.publishers + 1 IN
                  /\ publishers' = publishers @@ (id :> PublisherRow(id, q.body))
                  /\ seq' = [seq EXCEPT !.publishers = id]
                  /\ reqs' = [reqs EXCEPT ![r] = [Wrote(q, "reread") EXCEPT !.lastrowid = id]]
          /\ UNCHANGED <<authors, books>>
       \/ /\ q.pc = "reread"
          /\ reqs' = [reqs EXCEPT ![r] = ReturnDict(q, FetchOne(publishers, q.lastrowid))]
          /\ UNCHANGED <<authors, publishers, books, seq>>

read_publishers(r) ==
    LET q == reqs[r] IN
    /\ q.op = "read_publishers"
    /\ q.pc = "select"
    /\ reqs' = [reqs EXCEPT ![r] = SelectPage(q, publishers)]
    /\ UNCHANGED <<authors, publishers, books, seq>>

read_publisher(r) ==
    LET q == reqs[r] IN
    /\ q.op = "read_publisher"
    /\ q.pc = "select"
    /\ reqs' = [reqs EXCEPT ![r] = SelectById(q, publishers, "Publisher not found")]
    /\ UNCHANGED <<authors, publishers, books, seq>>

update_publisher(r) ==
    LET q == reqs[r] IN
    /\ q.op = "update_publisher"
    /\ \/ /\ q.pc = "check"
          /\ reqs' = [reqs EXCEPT ![r] =
                        ExistenceCheck(q, publishers, "Publisher not found", "update")]
          /\ UNCHANGED <<authors, publishers, books, seq>>
       \/ /\ q.pc = "update"
          /\ IF q.id \in DOMAIN publishers /\ EmailTaken(publishers, q.body.email, q.id)
             THEN /\ reqs' = [reqs EXCEPT ![r] = Raise500(q, "IntegrityError")]
                  /\ UNCHANGED publishers
             ELSE /\ publishers' = [i \in DOMAIN publishers |->
                                   IF i = q.id THEN PublisherSet(publishers[i], q.body) ELSE publishers[i]]
                  /\ reqs' = [reqs EXCEPT ![r] = Wrote(q, "reread")]
          /\ UNCHANGED <<authors, books, seq>>
       \/ /\ q.pc = "reread"
          /\ reqs' = [reqs EXCEPT ![r] = ReturnDict(q, FetchOne(publishers, q.id))]
          /\ UNCHANGED <<authors, publishers, books, seq>>

delete_publisher(r) ==
    LET q == reqs[r] IN
    /\ q.op = "delete_publisher"
    /\ \/ /\ q.pc = "check"
          /\ reqs' = [reqs EXCEPT ![r] =
                        ExistenceCheck(q, publishers, "Publisher not found", "delete")]
          /\ UNCHANGED <<authors, publishers, books, seq>>
       \/ /\ q.pc = "delete"
          /\ IF StillReferenced("publisher_id", q.id)
             THEN /\ reqs' = [reqs EXCEPT ![r] = Raise500(q, "IntegrityError")]
                  /\ UNCHANGED publishers
             ELSE /\ publishers' = DeleteRow(publishers, q.id)
                  /\ reqs' = [reqs EXCEPT ![r] =
                                ReturnMessage(Wrote(q, "exit"),
                                    "Publisher " \o ToString(q.id) \o " deleted successfully")]
          /\ UNCHANGED <<authors, books, seq>>

-----------------------------------------------------------------------------
(* Book endpoints *)

\* `if genre:` / `if author_id:`: None, "" and 0 are falsy.
Truthy(x, zero) == x # None /\ x # Some(zero)

\* The integers read_books binds: the truthy id filters, limit and skip.
BooksParamsInRange(qy) ==
    /\ Truthy(qy.author_id, 0) => InRange(qy.author_id[1])
    /\ Truthy(qy.publisher_id, 0) => InRange(qy.publisher_id[1])
    /\ InRange(qy.limit) /\ InRange(qy.skip)

\* The rows read_books selects: its WHERE clause has one `column = ?` per truthy
\* filter, joined by AND (a NULL column equals nothing), then LIMIT ? OFFSET ?.
BooksQuery(tbl, qy) ==
    LET Where(row) ==
            /\ Truthy(qy.genre, "") => row.genre = qy.genre
            /\ Truthy(qy.author_id, 0) => row.author_id = qy.author_id
            /\ Truthy(qy.publisher_id, 0) => row.publisher_id = qy.publisher_id
    IN Page(SelectSeq(RowsOf(tbl, DOMAIN tbl), Where), qy.limit, qy.skip)

\* "Validate author_id if provided": SELECT id FROM authors WHERE id = ?
validate_author(r) ==
    LET q == reqs[r] IN
    /\ q.pc = "val_author"
    /\ reqs' = [reqs EXCEPT ![r] =
                  IF ~InRange(q.body.author_id[1]) THEN Raise500(q, "OverflowError")
                  ELSE IF FetchOne(authors, q.body.author_id[1]) = None
                  THEN Raise404(q, "Author not found")
                  ELSE [q EXCEPT !.pc = AfterAuthor(q.body)]]
    /\ UNCHANGED <<authors, publishers, books, seq>>

\* "Validate publisher_id if provided": SELECT id FROM publishers WHERE id = ?
validate_publisher(r) ==
    LET q == reqs[r] IN
    /\ q.pc = "val_publisher"
    /\ reqs' = [reqs EXCEPT ![r] =
                  IF ~InRange(q.body.publisher_id[1]) THEN Raise500(q, "OverflowError")
                  ELSE IF FetchOne(publishers, q.body.publisher_id[1]) = None
                  THEN Raise404(q, "Publisher not found")
                  ELSE [q EXCEPT !.pc = "write"]]
    /\ UNCHANGED <<authors, publishers, books, seq>>

create_book(r) ==
    LET q == reqs[r] IN
    /\ q.op = "create_book"
    /\ \/ validate_author(r)
       \/ validate_publisher(r)
       \/ /\ q.pc = "write"
          /\ IF IsbnTaken(books, q.body.isbn, 0) \/ BadReference(q.body)
             THEN /\ reqs' = [reqs EXCEPT ![r] = Raise500(q, "IntegrityError")]
                  /\ UNCHANGED <<books, seq>>
             ELSE LET id == seq.books + 1 IN
                  /\ books' = books @@ (id :> BookRow(id, q.body))
                  /\ seq' = [seq EXCEPT !.books = id]
                  /\ reqs' = [reqs EXCEPT ![r] = [Wrote(q, "reread") EXCEPT !.lastrowid = id]]
          /\ UNCHANGED <<authors, publishers>>
       \/ /\ q.pc = "reread"
          /\ reqs' = [reqs EXCEPT ![r] = ReturnDict(q, FetchOne(books, q.lastrowid))]
          /\ UNCHANGED <<authors, publishers, books, seq>>

read_books(r) ==
    LET q == reqs[r] IN
    /\ q.op = "read_books"
    /\ q.pc = "select"
    /\ reqs' = [reqs EXCEPT ![r] =
                  IF BooksParamsInRange(q.qry) THEN ReturnList(q, BooksQuery(books, q.qry))
                  ELSE Raise500(q, "OverflowError")]
    /\ UNCHANGED <<authors, publishers, books, seq>>

read_book(r) ==
    LET q == reqs[r] IN
    /\ q.op = "read_book"
    /\ q.pc = "select"
    /\ reqs' = [reqs EXCEPT ![r] = SelectById(q, books, "Book not found")]
    /\ UNCHANGED <<authors, publishers, books, seq>>

update_book(r) ==
    LET q == reqs[r] IN
    /\ q.op = "update_book"
    /\ \/ /\ q.pc = "check"
          /\ reqs' = [reqs EXCEPT ![r] =
                        ExistenceCheck(q, books, "Book not found", AfterCheck(q.body))]
          /\ UNCHANGED <<authors, publishers, books, seq>>
       \/ validate_author(r)
       \/ validate_publisher(r)
       \/ /\ q.pc = "write"
          /\ IF q.id \in DOMAIN books
                /\ (IsbnTaken(books, q.body.isbn, q.id) \/ BadReference(q.body))
             THEN /\ reqs' = [reqs EXCEPT ![r] = Raise500(q, "IntegrityError")]
                  /\ UNCHANGED books
             ELSE /\ books' = [i \in DOMAIN books |->
                                 IF i = q.id THEN BookSet(books[i], q.body) ELSE books[i]]
                  /\ reqs' = [reqs EXCEPT ![r] = Wrote(q, "reread")]
          /\ UNCHANGED <<authors, publishers, seq>>
       \/ /\ q.pc = "reread"
          /\ reqs' = [reqs EXCEPT ![r] = ReturnDict(q, FetchOne(books, q.id))]
          /\ UNCHANGED <<authors, publishers, books, seq>>

delete_book(r) ==
    LET q == reqs[r] IN
    /\ q.op = "delete_book"
    /\ \/ /\ q.pc = "check"
          /\ reqs' = [reqs EXCEPT ![r] =
                        ExistenceCheck(q, books, "Book not found", "delete")]
          /\ UNCHANGED <<authors, publishers, books, seq>>
       \/ /\ q.pc = "delete"
          /\ books' = DeleteRow(books, q.id)
          /\ reqs' = [reqs EXCEPT ![r] =
                        ReturnMessage(Wrote(q, "exit"),
                                      "Book " \o ToString(q.id) \o " deleted successfully")]
          /\ UNCHANGED <<authors, publishers, seq>>

-----------------------------------------------------------------------------

\* The statements of the fifteen endpoints.
Handler(r) ==
    \/ create_author(r)
    \/ read_authors(r)
    \/ read_author(r)
    \/ update_author(r)
    \/ delete_author(r)
    \/ create_publisher(r)
    \/ read_publishers(r)
    \/ read_publisher(r)
    \/ update_publisher(r)
    \/ delete_publisher(r)
    \/ create_book(r)
    \/ read_books(r)
    \/ read_book(r)
    \/ update_book(r)
    \/ delete_book(r)

\* Requests served in parallel: any request may take its next step.
Next == \E r \in Reqs : get_db_open(r) \/ Handler(r) \/ get_db_close(r)

Spec == Init /\ [][Next]_vars

\* Every request that has arrived runs on: the thread pool runs each handler to
\* its return or raise, and the dependency's exit code after it.
FairSpec == Spec /\ \A r \in Reqs : WF_vars(Handler(r) \/ get_db_close(r))

\* No request is being served.
Quiet == \A r \in Reqs : reqs[r].pc \in {"idle", "done"}

\* Requests served one at a time: a request arrives only when none is in flight.
SeqNext == \E r \in Reqs : (Quiet /\ get_db_open(r)) \/ Handler(r) \/ get_db_close(r)

SeqSpec == Init /\ [][SeqNext]_vars

\* One at a time, and every request that has arrived runs on.
FairSeqSpec == SeqSpec /\ \A r \in Reqs : WF_vars(Handler(r) \/ get_db_close(r))

-----------------------------------------------------------------------------
(* Properties.  A request at "exit" has returned or raised and still carries   *)
(* its arguments, its response and the store it found on arrival; under        *)
(* SeqSpec nothing else ran in between, so `pre` is the store before the       *)
(* request and the variables are the store after it.                           *)

AuthorOps == {"create_author", "read_authors", "read_author", "update_author", "delete_author"}
PublisherOps ==
    {"create_publisher", "read_publishers", "read_publisher", "update_publisher",
     "delete_publisher"}
BookOps == {"create_book", "read_books", "read_book", "update_book", "delete_book"}
CreateOps == {"create_author", "create_publisher", "create_book"}
UpdateOps == {"update_author", "update_publisher", "update_book"}
ByIdOps ==
    {"read_author", "update_author", "delete_author", "read_publisher", "update_publisher",
     "delete_publisher", "read_book", "update_book", "delete_book"}

\* The table of a store an endpoint works on, and the name its 404 gives it.
TableOf(op, st) ==
    IF op \in AuthorOps THEN st.authors
    ELSE IF op \in PublisherOps THEN st.publishers ELSE st.books

NotFoundOf(op) ==
    IF op \in AuthorOps THEN "Author not found"
    ELSE IF op \in PublisherOps THEN "Publisher not found" ELSE "Book not found"

\* A reference that is present and matches no row of tbl.
Missing(ref, tbl) == ref # None /\ ref[1] \notin DOMAIN tbl

\* A create_book, or an update_book of a book that exists, at its exit.
BookWriteExit(q) ==
    /\ q.pc = "exit"
    /\ q.op \in {"create_book", "update_book"}
    /\ q.op = "update_book" => q.id \in DOMAIN q.pre[1].books

\* C1 as stated (the author being looked up first): a create_book, or an
\* update_book of an existing book, whose author_id is present and matches no
\* author ends with 404 "Author not found"; one whose publisher_id is present and
\* matches no publisher (its author_id null or matching) ends with 404 "Publisher
\* not found"; and the books table is as it was before the request.
C1_AsStated ==
    \A r \in Reqs :
        LET q == reqs[r] IN
        BookWriteExit(q) =>
            /\ Missing(q.body.author_id, q.pre[1].authors) =>
                  q.res = Resp(404, "Author not found", <<>>) /\ books = q.pre[1].books
            /\ (/\ Missing(q.body.publisher_id, q.pre[1].publishers)
                /\ ~Missing(q.body.author_id, q.pre[1].authors)) =>
                  q.res = Resp(404, "Publisher not found", <<>>) /\ books = q.pre[1].books

\* C3 as stated: a get, update or delete of an id that matches no row of its
\* table ends with the 404 naming that entity, has executed no UPDATE or DELETE,
\* and leaves the three tables as they were; for update_book whatever the body is.
C3_AsStated ==
    \A r \in Reqs :
        LET q == reqs[r] IN
        (/\ q.pc = "exit" /\ q.op \in ByIdOps
         /\ q.id \notin DOMAIN TableOf(q.op, q.pre[1])) =>
            /\ q.res = Resp(404, NotFoundOf(q.op), <<>>)
            /\ q.writes = 0
            /\ Store = q.pre[1]

\* C7: delete_author (delete_publisher) of an existing id succeeds, removes that
\* one row, leaves the books table and the other entity's table as they were, and
\* every book that referred to the deleted row is still there, unchanged, for a
\* read_book to fetch.
C7_NoCascade ==
    \A r \in Reqs :
        LET q == reqs[r]
            column == IF q.op = "delete_author" THEN "author_id" ELSE "publisher_id"
        IN
        (/\ q.pc = "exit" /\ q.op \in {"delete_author", "delete_publisher"}
         /\ q.id \in DOMAIN TableOf(q.op, q.pre[1])) =>
            /\ q.res.status = 200
            /\ TableOf(q.op, Store) = DeleteRow(TableOf(q.op, q.pre[1]), q.id)
            /\ books = q.pre[1].books
            /\ q.op = "delete_author" => publishers = q.pre[1].publishers
            /\ q.op = "delete_publisher" => authors = q.pre[1].authors
            /\ \A b \in DOMAIN q.pre[1].books :
                 q.pre[1].books[b][column] = Some(q.id) =>
                    FetchOne(books, b) = Some(q.pre[1].books[b])

\* A delete_author of an author some book refers to has ended, and the book still
\* refers to it.
C7_Witness ==
    \E r \in Reqs :
        LET q == reqs[r] IN
        /\ q.pc = "exit" /\ q.op = "delete_author" /\ q.res.status = 200
        /\ q.id \notin DOMAIN authors
        /\ \E b \in DOMAIN books : books[b].author_id = Some(q.id)

AuthorFields == {"name", "email", "bio"}
PublisherFields == {"name", "address", "phone", "email"}
BookFields ==
    {"title", "description", "isbn", "publication_date", "price", "genre", "author_id",
     "publisher_id"}

FieldsOf(op) ==
    IF op \in AuthorOps THEN AuthorFields
    ELSE IF op \in PublisherOps THEN PublisherFields ELSE BookFields

\* The tables an endpoint does not work on are the same in both stores.
OtherTablesSame(op, st0, st1) ==
    /\ op \notin AuthorOps => st1.authors = st0.authors
    /\ op \notin PublisherOps => st1.publishers = st0.publishers
    /\ op \notin BookOps => st1.books = st0.books

\* C8: after a successful create that returned id i, a get of i finds a row with
\* id i that equals the input on every input field (and is the row the create
\* returned, its server-assigned fields set); after a successful update of i, a
\* get of i finds id i with the update's value in every input field, null ones
\* included; and no other row of any table has changed.
C8_RoundTrip ==
    \A r \in Reqs :
        LET q == reqs[r]
            i == IF q.op \in CreateOps THEN q.lastrowid ELSE q.id
            before == TableOf(q.op, q.pre[1])
            after == TableOf(q.op, Store)
            got == FetchOne(after, i)
        IN
        (q.pc = "exit" /\ q.op \in CreateOps \cup UpdateOps /\ q.res.status = 200) =>
            /\ got # None
            /\ got[1].id = i
            /\ \A f \in FieldsOf(q.op) : got[1][f] = q.body[f]
            /\ q.res.rows = got
            /\ q.op = "create_author" => got[1].date_registered # None
            /\ IF q.op \in CreateOps
               THEN i \notin DOMAIN before /\ DOMAIN after = DOMAIN before \cup {i}
               ELSE i \in DOMAIN before /\ DOMAIN after = DOMAIN before
            /\ \A j \in DOMAIN before \ {i} : after[j] = before[j]
            /\ OtherTablesSame(q.op, q.pre[1], Store)

\* An update_book of a book an earlier create_book made has succeeded, and it set
\* to null a description that was stored.
C8_Witness ==
    \E r \in Reqs :
        LET q == reqs[r] IN
        /\ q.pc = "exit" /\ q.op = "update_book" /\ q.res.status = 200
        /\ q.id \notin DOMAIN SeedBooks
        /\ q.pre[1].books[q.id].description # None
        /\ q.body.description = None
        /\ books[q.id].description = None

\* The unique column of an entity, and whether a create / update of an existing
\* row would give it a value another row of the table holds.
Duplicates(q) ==
    LET tbl == TableOf(q.op, q.pre[1])
        self == IF q.op \in CreateOps THEN 0 ELSE q.id
    IN /\ q.op \in UpdateOps => q.id \in DOMAIN tbl
       /\ IF q.op \in BookOps THEN IsbnTaken(tbl, q.body.isbn, self)
          ELSE EmailTaken(tbl, q.body.email, self)

\* C5 as stated: a create or update that would duplicate authors.email,
\* publishers.email or books.isbn of another row ends with a client error (4xx),
\* not a server error, and the store is as it was before the request.
C5_AsStated ==
    \A r \in Reqs :
        LET q == reqs[r] IN
        (q.pc = "exit" /\ q.op \in CreateOps \cup UpdateOps /\ Duplicates(q)) =>
            /\ q.res.status \in 400..499
            /\ Store = q.pre[1]

\* A row passes the filters that were supplied (present, whatever their value).
MatchesSupplied(row, qy) ==
    /\ qy.genre # None => row.genre = qy.genre
    /\ qy.author_id # None => row.author_id = qy.author_id
    /\ qy.publisher_id # None => row.publisher_id = qy.publisher_id

\* C4 as stated: when read_books is given author_id = 0, publisher_id = 0 or
\* genre = "", the filter counts as supplied: every book returned has that value
\* in that column.
C4_AsStated ==
    \A r \in Reqs :
        LET q == reqs[r] IN
        (/\ q.pc = "exit" /\ q.op = "read_books"
         /\ \/ q.qry.genre = Some("")
            \/ q.qry.author_id = Some(0)
            \/ q.qry.publisher_id = Some(0)) =>
            \A k \in 1..Len(q.res.rows) : MatchesSupplied(q.res.rows[k], q.qry)

\* C6 as stated: read_books returns the books, in id order, that equal every
\* supplied filter exactly, less the first skip of them and cut to limit.
C6_AsStated ==
    \A r \in Reqs :
        LET q == reqs[r]
            Keep(row) == MatchesSupplied(row, q.qry)
        IN
        (q.pc = "exit" /\ q.op = "read_books") =>
            q.res.rows =
                Page(SelectSeq(RowsOf(q.pre[1].books, DOMAIN q.pre[1].books), Keep),
                     q.qry.limit, q.qry.skip)

\* C2 as stated: whenever a create_book or update_book commits a book row, the
\* author its author_id names and the publisher its publisher_id names exist in
\* the store at that moment.
C2_AsStated ==
    [][\A r \in Reqs :
          LET q == reqs[r] IN
          (/\ q.op \in {"create_book", "update_book"}
           /\ q.pc = "write"
           /\ reqs'[r].writes = q.writes + 1
           /\ q.op = "update_book" => q.id \in DOMAIN books) =>
              /\ ~Missing(q.body.author_id, authors)
              /\ ~Missing(q.body.publisher_id, publishers)]_vars

\* A request that C5 and the range of SQLite's integers do not concern: the
\* unique column of its body is null, and its id and references are in range.
Plain(q) ==
    /\ IF q.op \in BookOps THEN q.body.isbn = None ELSE q.body.email = None
    /\ InRange(q.id)
    /\ q.op \in BookOps =>
          /\ q.body.author_id # None => InRange(q.body.author_id[1])
          /\ q.body.publisher_id # None => InRange(q.body.publisher_id[1])

\* C10 as stated: under every interleaving an update ends with the stored entity
\* or its 404, a create with the stored entity (create_book: or the 404 of a
\* missing reference), never with a server error.
C10_AsStated ==
    \A r \in Reqs :
        LET q == reqs[r] IN
        (q.pc = "exit" /\ q.op \in CreateOps \cup UpdateOps /\ Plain(q)) =>
            \/ q.res.status = 200 /\ Len(q.res.rows) = 1
            \/ q.res.status = 404 /\ q.op \in UpdateOps \cup {"create_book"}

\* C9: a request that is over holds no open connection (however its handler
\* ended), a connection is open only while its request is being served, and
\* every connection that is opened is closed in the end.
C9_ConnectionClosed ==
    /\ [](\A r \in Reqs :
            /\ reqs[r].pc = "done" => reqs[r].conn = "closed"
            /\ reqs[r].conn = "open" => reqs[r].pc \notin {"idle", "done"})
    /\ \A r \in Reqs : (reqs[r].conn = "open") ~> (reqs[r].conn = "closed")

\* A request whose handler raised (404 or 500) is over and its connection closed.
C9_Witness ==
    \E r \in Reqs :
        /\ reqs[r].pc = "done" /\ reqs[r].conn = "closed"
        /\ reqs[r].res.status \in {404, 500}

====
